---- MODULE Spec2Model ----
(***************************************************************************)
(* Model of backend/main.py of the swim schedule app: the line parser,    *)
(* the table grid walk, the event sort, the parse-pdf handler, the        *)
(* calendar window of an event and the handlers that share token_cache.    *)
(* Python strings are sequences of one-character strings.                  *)
(***************************************************************************)
EXTENDS Integers, Sequences, FiniteSets, TLC

VARIABLES pc, line, locals, result, tables, events, origins, upload, response,
          window, token_cache, history, call, reply

vars == <<pc, line, locals, result, tables, events, origins, upload, response,
          window, token_cache, history, call, reply>>

(***************************************************************************)
(* Bounds of the model                                                     *)
(***************************************************************************)
\* start hours of the generated time ranges are 0..MaxHour
MaxHour == 13

(***************************************************************************)
(* str helpers                                                             *)
(***************************************************************************)
Digits == <<"0", "1", "2", "3", "4", "5", "6", "7", "8", "9">>

LowerAlpha == <<"a", "b", "c", "d", "e", "f", "g", "h", "i", "j", "k", "l", "m",
                "n", "o", "p", "q", "r", "s", "t", "u", "v", "w", "x", "y", "z">>

UpperAlpha == <<"A", "B", "C", "D", "E", "F", "G", "H", "I", "J", "K", "L", "M",
                "N", "O", "P", "Q", "R", "S", "T", "U", "V", "W", "X", "Y", "Z">>

Whitespace == {" ", "\n", "\t"}

Range(f) == {f[i] : i \in DOMAIN f}

SetMin(S) == CHOOSE x \in S : \A y \in S : x <= y

IsDigit(c) == c \in Range(Digits)

\* int() of one decimal digit
DigitVal(c) == (CHOOSE i \in DOMAIN Digits : Digits[i] = c) - 1

\* int() of a string of decimal digits
RECURSIVE ToInt(_)
ToInt(s) ==
    IF Len(s) = 0 THEN 0
    ELSE 10 * ToInt(SubSeq(s, 1, Len(s) - 1)) + DigitVal(s[Len(s)])

\* str() of a natural number
RECURSIVE IntToStr(_)
IntToStr(n) ==
    IF n < 10 THEN <<Digits[n + 1]>>
    ELSE IntToStr(n \div 10) \o <<Digits[(n % 10) + 1]>>

UpperChar(c) ==
    IF c \in Range(LowerAlpha)
    THEN UpperAlpha[CHOOSE i \in DOMAIN LowerAlpha : LowerAlpha[i] = c]
    ELSE c

LowerChar(c) ==
    IF c \in Range(UpperAlpha)
    THEN LowerAlpha[CHOOSE i \in DOMAIN UpperAlpha : UpperAlpha[i] = c]
    ELSE c

\* str.upper() and str.lower()
StrUpper(s) == [i \in 1..Len(s) |-> UpperChar(s[i])]

StrLower(s) == [i \in 1..Len(s) |-> LowerChar(s[i])]

\* sub occurs in s at the 1-based position i
MatchAt(s, sub, i) ==
    /\ i >= 1
    /\ i + Len(sub) - 1 <= Len(s)
    /\ \A k \in 1..Len(sub) : s[i + k - 1] = sub[k]

\* str.find(sub): the 0-based index of the first occurrence, or -1
StrFind(s, sub) ==
    LET P == {i \in 1..(Len(s) - Len(sub) + 1) : MatchAt(s, sub, i)}
    IN  IF P = {} THEN -1 ELSE SetMin(P) - 1

\* sub in s
StrIn(sub, s) == StrFind(s, sub) # -1

\* s[n:] with a 0-based n
StrFrom(s, n) == SubSeq(s, n + 1, Len(s))

\* re.sub(r'\s+', '', s)
RemoveWhitespace(s) == SelectSeq(s, LAMBDA c : c \notin Whitespace)

\* str.strip()
RECURSIVE LStrip(_)
LStrip(s) ==
    IF Len(s) > 0 /\ s[1] \in Whitespace THEN LStrip(Tail(s)) ELSE s

RECURSIVE RStrip(_)
RStrip(s) ==
    IF Len(s) > 0 /\ s[Len(s)] \in Whitespace
    THEN RStrip(SubSeq(s, 1, Len(s) - 1))
    ELSE s

StrStrip(s) == LStrip(RStrip(s))

\* the character of s at the 1-based position i, or "" past the end
CharAt(s, i) == IF i >= 1 /\ i <= Len(s) THEN s[i] ELSE ""

(***************************************************************************)
(* Registries                                                              *)
(***************************************************************************)
Nastya == <<"N", "a", "s", "t", "y", "a">>
Kseniya == <<"K", "s", "e", "n", "i", "y", "a">>
Liza == <<"L", "i", "z", "a">>

JUN2 == <<"J", "U", "N", "2">>
JUN1R == <<"J", "U", "N", "1", "R">>
JUN1B == <<"J", "U", "N", "1", "B">>
JUNIOR == <<"J", "U", "N", "I", "O", "R">>

\* the team/child registry, as spelling -> child pairs
TEAM_TO_CHILD ==
    << <<JUN2, Nastya>>,
       <<(<<"J", "U", "N", " ", "2">>), Nastya>>,
       <<JUNIOR \o <<" ", "2">>, Nastya>>,
       <<(<<"J", "U", "N", "1", " ", "B">>), Kseniya>>,
       <<JUN1B, Kseniya>>,
       <<(<<"J", "U", "N", " ", "1", " ", "B">>), Kseniya>>,
       <<JUNIOR \o <<" ", "1", " ", "B", "L", "A", "C", "K">>, Kseniya>>,
       <<(<<"J", "U", "N", "1", " ", "R">>), Liza>>,
       <<JUN1R, Liza>>,
       <<(<<"J", "U", "N", " ", "1", " ", "R">>), Liza>>,
       <<JUNIOR \o <<" ", "1", " ", "R", "E", "D">>, Liza>> >>

MICC == <<"M", "I", "C", "C">>
MIBC == <<"M", "I", "B", "C">>
MW == <<"M", "W">>
PL == <<"P", "L">>

\* LOCATIONS.get(code): the name and the address of a location code
LOCATIONS(code) ==
    IF code = MICC
    THEN [name |-> "Mercer Island Country Club",
          address |-> "8700 SE 71st St, Mercer Island, WA 98040"]
    ELSE IF code = MW
    THEN [name |-> "Mary Wayte Swimming Pool",
          address |-> "8815 SE 40th St, Mercer Island, WA 98040"]
    ELSE IF code = MIBC
    THEN [name |-> "Mercer Island Beach Club",
          address |-> "8326 Avalon Dr, Mercer Island, WA 98040"]
    ELSE IF code = PL
    THEN [name |-> "Phantom Lake Bath & Tennis Club",
          address |-> "15810 SE 24th St, Bellevue, WA 98008"]
    ELSE [name |-> "", address |-> ""]

\* LocationOrder with the two-letter codes first
LocationOrder_ShortFirst == <<MW, PL, MICC, MIBC>>

\* the order in which the location codes are tried
LocationOrder == <<MICC, MIBC, MW, PL>>

(***************************************************************************)
(* parse_schedule_line                                                     *)
(***************************************************************************)
OFF == <<"O", "F", "F">>

\* the value of a name that holds None or the empty string
Empty == <<>>

\* Step 2: the team is looked up in the compact line, JUN1R first
TeamStep(compact) ==
    IF StrIn(JUN1R, compact)
    THEN [child |-> Liza, team |-> <<"J", "U", "N", "1", " ", "R">>,
          team_end_pos |-> StrFind(compact, JUN1R) + 5]
    ELSE IF StrIn(JUN1B, compact)
    THEN [child |-> Kseniya, team |-> <<"J", "U", "N", "1", " ", "B">>,
          team_end_pos |-> StrFind(compact, JUN1B) + 5]
    ELSE IF StrIn(JUN2, compact)
    THEN [child |-> Nastya, team |-> JUN2,
          team_end_pos |-> StrFind(compact, JUN2) + 4]
    ELSE [child |-> Empty, team |-> Empty, team_end_pos |-> 0]

\* \d{1,2} at position i: how many digits the greedy group takes (0: none)
DigitRun(s, i) ==
    IF ~IsDigit(CharAt(s, i)) THEN 0
    ELSE IF IsDigit(CharAt(s, i + 1)) THEN 2 ELSE 1

\* (?::(\d{2}))? at position p: whether the optional minutes are there
MinutesAt(s, p) ==
    /\ CharAt(s, p) = ":"
    /\ IsDigit(CharAt(s, p + 1))
    /\ IsDigit(CharAt(s, p + 2))

NoMatch ==
    [ok |-> FALSE, g1 |-> Empty, g2 |-> Empty, g3 |-> Empty, g4 |-> Empty,
     g5 |-> Empty]

\* the regex (\d{1,2})(?::(\d{2}))?-(\d{1,2})(?::(\d{2}))?([AP]M?)? anchored
\* at the 1-based position i; an absent group is Empty
TimeMatchAt(s, i) ==
    LET Groups(p1, pd, p3, p4, n5) ==
            IF p1 = i \/ CharAt(s, pd) # "-" \/ p3 = pd + 1
            THEN NoMatch
            ELSE [ok |-> TRUE,
                  g1 |-> SubSeq(s, i, p1 - 1),
                  g2 |-> IF pd > p1 THEN SubSeq(s, p1 + 1, p1 + 2) ELSE Empty,
                  g3 |-> SubSeq(s, pd + 1, p3 - 1),
                  g4 |-> IF p4 > p3 THEN SubSeq(s, p3 + 1, p3 + 2) ELSE Empty,
                  g5 |-> SubSeq(s, p4, p4 + n5 - 1)]
        \* ([AP]M?)? at p4
        EndMarker(p1, pd, p3, p4) ==
            Groups(p1, pd, p3, p4,
                   IF CharAt(s, p4) \in {"A", "P"}
                   THEN (IF CharAt(s, p4 + 1) = "M" THEN 2 ELSE 1)
                   ELSE 0)
        \* (?::(\d{2}))? at p3
        EndMinutes(p1, pd, p3) ==
            EndMarker(p1, pd, p3, IF MinutesAt(s, p3) THEN p3 + 3 ELSE p3)
        \* -(\d{1,2}) at pd
        EndHour(p1, pd) == EndMinutes(p1, pd, pd + 1 + DigitRun(s, pd + 1))
        \* (?::(\d{2}))? at p1
        StartMinutes(p1) == EndHour(p1, IF MinutesAt(s, p1) THEN p1 + 3 ELSE p1)
    IN  StartMinutes(i + DigitRun(s, i))

\* re.search of the time pattern: the leftmost match
TimeSearch(s) ==
    LET Leftmost(P) == IF P = {} THEN NoMatch ELSE TimeMatchAt(s, SetMin(P))
    IN  Leftmost({i \in 1..Len(s) : TimeMatchAt(s, i).ok})

\* x or "00"
OrZeroZero(x) == IF x = Empty THEN <<"0", "0">> ELSE x

\* FullMarker without the completion of a one-letter marker
FullMarker_Bare(ampm) == ampm

\* a one-letter marker gets its M
FullMarker(ampm) == IF Len(ampm) = 1 THEN ampm \o <<"M">> ELSE ampm

\* the start hour is 1..12 and there is a marker
TimeAccepted(start_hour, ampm) ==
    /\ ToInt(start_hour) >= 1
    /\ ToInt(start_hour) <= 12
    /\ ampm # Empty

\* f"{start_hour}:{start_min} {ampm} - {end_hour}:{end_min} {ampm}"
FormatTime(start_hour, start_min, end_hour, end_min, ampm) ==
    start_hour \o <<":">> \o start_min \o <<" ">> \o ampm \o <<" ", "-", " ">>
        \o end_hour \o <<":">> \o end_min \o <<" ">> \o ampm

\* Step 4: the time string, Empty when there is none
TimeStep(rest) ==
    LET Display(m, ampm) ==
            IF m.ok /\ TimeAccepted(m.g1, ampm)
            THEN FormatTime(m.g1, OrZeroZero(m.g2), m.g3, OrZeroZero(m.g4), ampm)
            ELSE Empty
        Matched(m) == Display(m, FullMarker(m.g5))
    IN  Matched(TimeSearch(rest))

\* Step 5: the first code of the order that occurs in rest, Empty when none
LocationStep(rest) ==
    LET First(P) == IF P = {} THEN Empty ELSE LocationOrder[SetMin(P)]
    IN  First({k \in DOMAIN LocationOrder : StrIn(LocationOrder[k], rest)})

\* the line is skipped as an OFF entry
IsOffEntry(original_upper) == StrIn(OFF, original_upper)

\* SkipEntry with "and" for "or"
SkipEntry_And(time_str, location_code) == time_str = Empty /\ location_code = Empty

\* the entry is skipped for want of a time or of a location
SkipEntry(time_str, location_code) == time_str = Empty \/ location_code = Empty

\* f"{child} @{location_code} {time_str}"
FormatTitle(child, location_code, time_str) ==
    child \o <<" ", "@">> \o location_code \o <<" ">> \o time_str

None ==
    [kind |-> "None", child |-> Empty, team |-> Empty, time |-> Empty,
     location_code |-> Empty, location_name |-> "", location_address |-> "",
     title |-> Empty]

\* the locals of parse_schedule_line when it returns; ret is the line of the
\* return statement taken; a local not assigned by then is Empty
Frame(line_) ==
    LET unset == [ret |-> 233, compact |-> Empty, child |-> Empty, team |-> Empty,
                  rest |-> Empty, time_str |-> Empty, location_code |-> Empty]
        AtSkipCheck(compact, t, rest, time_str, location_code) ==
            [ret |-> IF SkipEntry(time_str, location_code) THEN 304 ELSE 309,
             compact |-> compact, child |-> t.child, team |-> t.team,
             rest |-> rest, time_str |-> time_str,
             location_code |-> location_code]
        AfterRest(compact, t, rest) ==
            AtSkipCheck(compact, t, rest, TimeStep(rest), LocationStep(rest))
        AfterTeam(compact, t) ==
            IF t.child = Empty
            THEN [unset EXCEPT !.ret = 265, !.compact = compact]
            ELSE AfterRest(compact, t, StrFrom(compact, t.team_end_pos))
        AfterCompact(compact) == AfterTeam(compact, TeamStep(compact))
        AfterUpper(original_upper) ==
            IF IsOffEntry(original_upper) THEN [unset EXCEPT !.ret = 240]
            ELSE AfterCompact(RemoveWhitespace(original_upper))
    IN  IF line_ = Empty THEN unset ELSE AfterUpper(StrUpper(line_))

\* the value parse_schedule_line returns
parse_schedule_line(line_) ==
    LET Return(f) ==
            IF f.ret # 309 THEN None
            ELSE [kind |-> "event", child |-> f.child, team |-> f.team,
                  time |-> f.time_str, location_code |-> f.location_code,
                  location_name |-> LOCATIONS(f.location_code).name,
                  location_address |-> LOCATIONS(f.location_code).address,
                  title |-> FormatTitle(f.child, f.location_code, f.time_str)]
    IN  Return(Frame(line_))

(***************************************************************************)
(* parse_swim_schedule_tables                                              *)
(***************************************************************************)
MONTHS ==
    <<<<"J", "A", "N", "U", "A", "R", "Y">>,
      <<"F", "E", "B", "R", "U", "A", "R", "Y">>,
      <<"M", "A", "R", "C", "H">>,
      <<"A", "P", "R", "I", "L">>,
      <<"M", "A", "Y">>,
      <<"J", "U", "N", "E">>,
      <<"J", "U", "L", "Y">>,
      <<"A", "U", "G", "U", "S", "T">>,
      <<"S", "E", "P", "T", "E", "M", "B", "E", "R">>,
      <<"O", "C", "T", "O", "B", "E", "R">>,
      <<"N", "O", "V", "E", "M", "B", "E", "R">>,
      <<"D", "E", "C", "E", "M", "B", "E", "R">>>>

MONTH_ABBREV ==
    <<<<"J", "a", "n">>,
      <<"F", "e", "b">>,
      <<"M", "a", "r">>,
      <<"A", "p", "r">>,
      <<"M", "a", "y">>,
      <<"J", "u", "n">>,
      <<"J", "u", "l">>,
      <<"A", "u", "g">>,
      <<"S", "e", "p">>,
      <<"O", "c", "t">>,
      <<"N", "o", "v">>,
      <<"D", "e", "c">>>>

monday == <<"m", "o", "n", "d", "a", "y">>
tuesday == <<"t", "u", "e", "s", "d", "a", "y">>

\* str.split('\n')
RECURSIVE SplitLines(_)
SplitLines(s) ==
    LET P == {i \in 1..Len(s) : s[i] = "\n"}
    IN  IF P = {} THEN <<s>>
        ELSE <<SubSeq(s, 1, SetMin(P) - 1)>> \o SplitLines(StrFrom(s, SetMin(P)))

\* ' '.join(str(c) for c in row if c)
RECURSIVE JoinCells(_)
JoinCells(row) ==
    IF Len(row) = 0 THEN Empty
    ELSE LET rest == JoinCells(Tail(row))
         IN  IF row[1] = Empty THEN rest
             ELSE IF \A k \in 2..Len(row) : row[k] = Empty THEN row[1]
             ELSE row[1] \o <<" ">> \o rest

\* the table is skipped for its size
TooShort(table) == table = Empty \/ Len(table) < 3

\* the title of the table: the first cell of Row 0, upper-cased, or Empty
Title(table) ==
    IF table[1] # Empty /\ table[1][1] # Empty THEN StrUpper(table[1][1]) ELSE Empty

\* the month named in the title, 1..12, January when there is none
CalendarMonth(table) ==
    LET First(P) == IF P = {} THEN 1 ELSE SetMin(P)
    IN  First({i \in DOMAIN MONTHS : StrIn(MONTHS[i], Title(table))})

\* the year 20dd of the title, 2026 when there is none
CalendarYear(table) ==
    LET Year(t, P) ==
            IF P = {} THEN 2026 ELSE ToInt(SubSeq(t, SetMin(P), SetMin(P) + 3))
        Search(t) ==
            Year(t, {i \in 1..Len(t) :
                        /\ MatchAt(t, <<"2", "0">>, i)
                        /\ IsDigit(CharAt(t, i + 2))
                        /\ IsDigit(CharAt(t, i + 3))})
    IN  Search(Title(table))

\* the row holds a day name
IsHeaderRow(row) ==
    LET HasDay(row_text) == StrIn(monday, row_text) \/ StrIn(tuesday, row_text)
    IN  row # Empty /\ HasDay(StrLower(JoinCells(row)))

\* HeaderRowIdx that takes the first row when no row holds a day name
HeaderRowIdx_FirstRow(table) ==
    LET First(P) == IF P = {} THEN 0 ELSE SetMin(P) - 1
    IN  First({r \in DOMAIN table : IsHeaderRow(table[r])})

\* the 0-based index of the first header row, -1 when there is none
HeaderRowIdx(table) ==
    LET First(P) == IF P = {} THEN -1 ELSE SetMin(P) - 1
    IN  First({r \in DOMAIN table : IsHeaderRow(table[r])})

\* re.match(r'^\d{1,2}$', cell_str)
IsBareNumber(cell_str) ==
    /\ Len(cell_str) \in {1, 2}
    /\ \A k \in DOMAIN cell_str : IsDigit(cell_str[k])

\* the columns (1-based) of a row that hold a day number 1..31
DateColumns(row) ==
    LET IsDay(cell_str) ==
            /\ IsBareNumber(cell_str)
            /\ ToInt(cell_str) >= 1
            /\ ToInt(cell_str) <= 31
    IN  {c \in DOMAIN row : row[c] # Empty /\ IsDay(StrStrip(row[c]))}

\* IsDateRow with a threshold of two day numbers
IsDateRow_Two(row) == Cardinality(DateColumns(row)) >= 2

\* the row is a date row
IsDateRow(row) == Cardinality(DateColumns(row)) >= 3

\* calendar.monthrange(year, month)[1]
DaysInMonth(year, month) ==
    IF month = 2
    THEN (IF (year % 4 = 0 /\ year % 100 # 0) \/ year % 400 = 0 THEN 29 ELSE 28)
    ELSE IF month \in {4, 6, 9, 11} THEN 30 ELSE 31

\* f"{month_abbrev} {date_num}, {calendar_year}"
FormatDate(month, date_num, year) ==
    MONTH_ABBREV[month] \o <<" ">> \o IntToStr(date_num) \o <<",", " ">>
        \o IntToStr(year)

\* what a date row at the 1-based row r adds to all_date_info
DateRowInfo(table, r) ==
    LET Info(month, year, cols) ==
            [p \in {<<r, c>> : c \in cols} \cup {<<r + 1, c>> : c \in cols} |->
                FormatDate(month, ToInt(StrStrip(table[r][p[2]])), year)]
        InMonth(month, year) ==
            Info(month, year,
                 {c \in DateColumns(table[r]) :
                    ToInt(StrStrip(table[r][c])) <= DaysInMonth(year, month)})
    IN  InMonth(CalendarMonth(table), CalendarYear(table))

\* all_date_info after the rows up to the 1-based row r, from the row after
\* the header at the 1-based row hdr
RECURSIVE AllDateInfo(_, _, _)
AllDateInfo(table, hdr, r) ==
    IF r <= hdr THEN << >>
    ELSE IF table[r] # Empty /\ IsDateRow(table[r])
    THEN DateRowInfo(table, r) @@ AllDateInfo(table, hdr, r - 1)
    ELSE AllDateInfo(table, hdr, r - 1)

\* all_date_info.get((row, col), "")
InfoGet(info, r, c) == IF <<r, c>> \in DOMAIN info THEN info[<<r, c>>] ELSE Empty

\* DateFor without the look at the row above
DateFor_OwnRowOnly(info, r, c) == InfoGet(info, r, c)

\* the date of a cell: that of its own row, else that of the row above
DateFor(info, r, c) ==
    LET OrAbove(date_str) ==
            IF date_str # Empty THEN date_str ELSE InfoGet(info, r - 1, c)
    IN  OrAbove(InfoGet(info, r, c))

\* parsed with parsed["date"] = date_str
WithDate(parsed, date_str) == parsed @@ [date |-> date_str]

\* the events of the lines of one cell, each with the cell it came from
RECURSIVE LineEvents(_, _, _, _, _)
LineEvents(lines, info, ti, r, c) ==
    IF Len(lines) = 0 THEN <<>>
    ELSE LET Add(l, parsed, rest) ==
                 IF l = Empty \/ parsed = None THEN rest
                 ELSE <<[event |-> WithDate(parsed, DateFor(info, r, c)),
                         table |-> ti, row |-> r, col |-> c]>> \o rest
             Stripped(l) ==
                 Add(l, parse_schedule_line(l),
                     LineEvents(Tail(lines), info, ti, r, c))
         IN  Stripped(StrStrip(lines[1]))

\* the events of one cell
CellEvents(cell, info, ti, r, c) ==
    LET Stripped(cell_str) ==
            IF cell_str = Empty \/ IsBareNumber(cell_str) THEN <<>>
            ELSE LineEvents(SplitLines(cell_str), info, ti, r, c)
    IN  IF cell = Empty THEN <<>> ELSE Stripped(StrStrip(cell))

\* the events of the cells of row r from column c on
RECURSIVE RowEvents(_, _, _, _, _)
RowEvents(row, info, ti, r, c) ==
    IF c > Len(row) THEN <<>>
    ELSE CellEvents(row[c], info, ti, r, c) \o RowEvents(row, info, ti, r, c + 1)

\* the events of the rows of the table from the 1-based row r on
RECURSIVE RowsEvents(_, _, _, _)
RowsEvents(table, info, ti, r) ==
    IF r > Len(table) THEN <<>>
    ELSE RowEvents(table[r], info, ti, r, 1) \o RowsEvents(table, info, ti, r + 1)

\* the events one table adds
TableEvents(table, ti) ==
    LET FromHeader(header_row_idx) ==
            IF header_row_idx < 0 THEN <<>>
            ELSE RowsEvents(table,
                            AllDateInfo(table, header_row_idx + 1, Len(table)),
                            ti, header_row_idx + 2)
    IN  IF TooShort(table) THEN <<>> ELSE FromHeader(HeaderRowIdx(table))

\* the events of the tables from the ti-th on, each with its cell
RECURSIVE TablesEvents(_, _)
TablesEvents(tbls, ti) ==
    IF ti > Len(tbls) THEN <<>>
    ELSE TableEvents(tbls[ti], ti) \o TablesEvents(tbls, ti + 1)

\* the events of a list of events with their cells
EventsOf(es) == [k \in DOMAIN es |-> es[k].event]

\* the table, row and column of the cell of each event of such a list
OriginsOf(es) ==
    [k \in DOMAIN es |-> [table |-> es[k].table, row |-> es[k].row, col |-> es[k].col]]

\* the list parse_swim_schedule_tables returns
parse_swim_schedule_tables(tbls) == EventsOf(TablesEvents(tbls, 1))

\* for each returned event, the table, row and column of its cell
EventOrigins(tbls) == OriginsOf(TablesEvents(tbls, 1))

(***************************************************************************)
(* extract_schedule_from_pdf and parse_pdf                                 *)
(***************************************************************************)
\* a datetime as a number that orders as datetimes do: the date, then whether
\* the time of day is the last of the day (datetime.max) or midnight
DateTimeKey(year, month, day, last) == ((year * 100 + month) * 100 + day) * 2 + last

\* datetime.max
datetime_max == DateTimeKey(9999, 12, 31, 1)

\* the first position from i on that holds no whitespace
RECURSIVE SkipSpace(_, _)
SkipSpace(s, i) == IF CharAt(s, i) \in Whitespace THEN SkipSpace(s, i + 1) ELSE i

\* datetime.strptime(date_str, "%%b %%d, %%Y"), datetime.max when it raises
ParseDate(date_str) ==
    LET Date(M, year, day, ok) ==
            IF ok /\ year >= 1 /\ day <= DaysInMonth(year, SetMin(M))
            THEN DateTimeKey(year, SetMin(M), day, 0)
            ELSE datetime_max
        \* a: the day, b: the comma, c: the year
        Fields(M, a, b, c) ==
            Date(M, ToInt(SubSeq(date_str, c, c + 3)),
                 ToInt(SubSeq(date_str, a, b - 1)),
                 /\ Len(date_str) >= 3
                 /\ M # {}
                 /\ a > 4
                 /\ b > a
                 /\ ToInt(SubSeq(date_str, a, b - 1)) >= 1
                 /\ ToInt(SubSeq(date_str, a, b - 1)) <= 31
                 /\ CharAt(date_str, b) = ","
                 /\ c > b + 1
                 /\ \A k \in c..(c + 3) : IsDigit(CharAt(date_str, k))
                 /\ Len(date_str) = c + 3)
        AfterDay(M, a, b) == Fields(M, a, b, SkipSpace(date_str, b + 1))
        AfterMonth(M, a) == AfterDay(M, a, a + DigitRun(date_str, a))
    IN  AfterMonth({m \in DOMAIN MONTH_ABBREV :
                      StrUpper(SubSeq(date_str, 1, 3)) = StrUpper(MONTH_ABBREV[m])},
                   SkipSpace(date_str, 4))

\* the hour in 24-hour form
To24Hour(hour, ampm) ==
    IF ampm = <<"P", "M">> /\ hour # 12 THEN hour + 12
    ELSE IF ampm = <<"A", "M">> /\ hour = 12 THEN 0
    ELSE hour

\* re.match(r'(\d{1,2}):(\d{2})\s*(AM|PM)', time_str.upper()) and the start
\* hour and minute it gives, 0 and 0 when there is no match
StartTime(time_str) ==
    LET Start(t, n, ampm) ==
            IF n > 0 /\ MinutesAt(t, n + 1) /\ ampm \in {<<"A", "M">>, <<"P", "M">>}
            THEN <<To24Hour(ToInt(SubSeq(t, 1, n)), ampm),
                   ToInt(SubSeq(t, n + 2, n + 3))>>
            ELSE <<0, 0>>
        Marker(t, n, a) == Start(t, n, SubSeq(t, a, a + 1))
        Hour(t, n) == Marker(t, n, SkipSpace(t, n + 4))
        Upper(t) == Hour(t, DigitRun(t, 1))
    IN  Upper(StrUpper(time_str))

\* sort_key(event)
sort_key(event) ==
    LET Key(date, start) == <<date, start[1], start[2]>>
    IN  Key(ParseDate(event.date), StartTime(event.time))

\* tuple comparison
KeyLess(k1, k2) ==
    \/ k1[1] < k2[1]
    \/ k1[1] = k2[1] /\ k1[2] < k2[2]
    \/ k1[1] = k2[1] /\ k1[2] = k2[2] /\ k1[3] < k2[3]

\* the events, each with its key: the sort computes every key once
RECURSIVE Decorate(_)
Decorate(es) ==
    IF Len(es) = 0 THEN <<>>
    ELSE <<[key |-> sort_key(es[1]), event |-> es[1]]>> \o Decorate(Tail(es))

\* InsertSorted that puts the item before the items of equal key
InsertSorted_BeforeEqual(sorted, item) ==
    LET At(n) == SubSeq(sorted, 1, n) \o <<item>> \o SubSeq(sorted, n + 1, Len(sorted))
    IN  At(Cardinality({i \in DOMAIN sorted : KeyLess(sorted[i].key, item.key)}))

\* the item is put after the items whose key is not greater
InsertSorted(sorted, item) ==
    LET At(n) == SubSeq(sorted, 1, n) \o <<item>> \o SubSeq(sorted, n + 1, Len(sorted))
    IN  At(Cardinality({i \in DOMAIN sorted : ~KeyLess(item.key, sorted[i].key)}))

\* a stable sort of the items by key
RECURSIVE SortItems(_)
SortItems(items) ==
    IF Len(items) = 0 THEN <<>>
    ELSE InsertSorted(SortItems(SubSeq(items, 1, Len(items) - 1)), items[Len(items)])

\* events.sort(key=sort_key)
SortEvents(es) == EventsOf(SortItems(Decorate(es)))

\* all_tables: the tables of the pages that have tables
RECURSIVE AllTables(_)
AllTables(pages) ==
    IF Len(pages) = 0 THEN <<>> ELSE pages[1] \o AllTables(Tail(pages))

\* the events before the sort
ParsedEvents(pages) ==
    LET Parse(all_tables) ==
            IF all_tables # <<>> THEN parse_swim_schedule_tables(all_tables)
            ELSE <<>>
    IN  Parse(AllTables(pages))

\* the list extract_schedule_from_pdf returns
extract_schedule_from_pdf(pages) == SortEvents(ParsedEvents(pages))

\* the response of parse_pdf: 400 for a name that does not end in .pdf, 500
\* when reading the document raises, else success with the events
parse_pdf(file) ==
    IF ~file.filename_is_pdf
    THEN [status |-> 400, success |-> FALSE, events |-> <<>>]
    ELSE IF ~file.opens
    THEN [status |-> 500, success |-> FALSE, events |-> <<>>]
    ELSE [status |-> 200, success |-> TRUE,
          events |-> extract_schedule_from_pdf(file.pages)]

(***************************************************************************)
(* parse_event_datetime                                                    *)
(***************************************************************************)
\* a JSON value that is not a string, as the value of a field of an event
NotAString == <<"(number)">>

\* datetime.now().date(): a day the model does not fix
today == 0

\* the characters of s at the 1-based positions i..j that s has
Slice(s, i, j) == SubSeq(s, i, IF j <= Len(s) THEN j ELSE Len(s))

\* re.sub(r"(st|nd|rd|th)", "", date_str, flags=re.IGNORECASE)
RECURSIVE RemoveOrdinals(_)
RemoveOrdinals(s) ==
    IF Len(s) = 0 THEN Empty
    ELSE IF StrLower(Slice(s, 1, 2)) \in
                {<<"s", "t">>, <<"n", "d">>, <<"r", "d">>, <<"t", "h">>}
    THEN RemoveOrdinals(StrFrom(s, 2))
    ELSE <<s[1]>> \o RemoveOrdinals(Tail(s))

\* str.strip(" ,")
RECURSIVE StripSpaceComma(_)
StripSpaceComma(s) ==
    IF Len(s) > 0 /\ s[1] \in {" ", ","} THEN StripSpaceComma(Tail(s))
    ELSE IF Len(s) > 0 /\ s[Len(s)] \in {" ", ","}
    THEN StripSpaceComma(SubSeq(s, 1, Len(s) - 1))
    ELSE s

\* parsed_date of a date string that begins with no digit and holds no
\* full month name: of date_formats only "%%b %%d, %%Y" can match it and the
\* fallback regex cannot; when nothing matches the date is today
ParsedDate(date_str) ==
    LET Parsed(d) == IF d = datetime_max THEN today ELSE d
    IN  Parsed(ParseDate(StripSpaceComma(RemoveOrdinals(date_str))))

NoRange ==
    [ok |-> FALSE, g1 |-> Empty, g2 |-> Empty, g3 |-> Empty, g4 |-> Empty,
     g5 |-> Empty, g6 |-> Empty]

\* re.match of (\d{1,2}):(\d{2})\s*(AM|PM)\s*-\s*(\d{1,2}):(\d{2})\s*(AM|PM)
TimeRangeMatch(t) ==
    LET IsMarker(x) == x \in {<<"A", "M">>, <<"P", "M">>}
        \* n: the digits of the start hour, a: the start marker, b: the
        \* hyphen, c: the end hour, m: its digits, d: the end marker
        Groups(n, a, b, c, m, d) ==
            IF /\ n > 0
               /\ MinutesAt(t, n + 1)
               /\ IsMarker(Slice(t, a, a + 1))
               /\ CharAt(t, b) = "-"
               /\ m > 0
               /\ MinutesAt(t, c + m)
               /\ IsMarker(Slice(t, d, d + 1))
            THEN [ok |-> TRUE,
                  g1 |-> SubSeq(t, 1, n),
                  g2 |-> SubSeq(t, n + 2, n + 3),
                  g3 |-> SubSeq(t, a, a + 1),
                  g4 |-> SubSeq(t, c, c + m - 1),
                  g5 |-> SubSeq(t, c + m + 1, c + m + 2),
                  g6 |-> SubSeq(t, d, d + 1)]
            ELSE NoRange
        EndMarkerAt(n, a, b, c, m) ==
            Groups(n, a, b, c, m, SkipSpace(t, c + m + 3))
        EndHourAt(n, a, b, c) == EndMarkerAt(n, a, b, c, DigitRun(t, c))
        HyphenAt(n, a, b) == EndHourAt(n, a, b, SkipSpace(t, b + 1))
        StartMarkerAt(n, a) == HyphenAt(n, a, SkipSpace(t, a + 2))
        StartHour(n) == StartMarkerAt(n, SkipSpace(t, n + 4))
    IN  StartHour(DigitRun(t, 1))

\* datetime.min.time().replace(hour=hour, minute=minute) raises ValueError
BadTime(hour, minute) == hour < 0 \/ hour > 23 \/ minute < 0 \/ minute > 59

\* a datetime of the parsed date shifted by minutes, as the days from the
\* parsed date and the minute of the day
Shifted(hour, minute, delta) ==
    <<(hour * 60 + minute + delta) \div 1440, (hour * 60 + minute + delta) % 1440>>

\* datetime comparison on the same parsed date
Before(dt1, dt2) == dt1[1] < dt2[1] \/ (dt1[1] = dt2[1] /\ dt1[2] < dt2[2])

\* parse_event_datetime of an event that is a JSON object with the given
\* date and time values: the pair it returns, or the exception it raises
parse_event_datetime(event) ==
    LET Window(parsed_date, start_hour, start_min, end_hour, end_min) ==
            IF BadTime(start_hour, start_min) \/ BadTime(end_hour, end_min)
            THEN [kind |-> "raise", date |-> parsed_date,
                  start |-> <<0, 0>>, end |-> <<0, 0>>]
            ELSE [kind |-> "window", date |-> parsed_date,
                  start |-> Shifted(start_hour, start_min, -45),
                  end |-> Shifted(end_hour, end_min, 30)]
        Timed(parsed_date, m) ==
            IF m.ok
            THEN Window(parsed_date,
                        To24Hour(ToInt(m.g1), m.g3), ToInt(m.g2),
                        To24Hour(ToInt(m.g4), m.g6), ToInt(m.g5))
            ELSE [kind |-> "window", date |-> parsed_date,
                  start |-> Shifted(9, 0, 0), end |-> Shifted(9, 0, 60)]
    IN  IF event.date = NotAString \/ event.time = NotAString
        THEN [kind |-> "raise", date |-> today, start |-> <<0, 0>>, end |-> <<0, 0>>]
        ELSE Timed(ParsedDate(event.date),
                   TimeRangeMatch(StrStrip(StrUpper(event.time))))

(***************************************************************************)
(* token_cache and the handlers that use it                                *)
(***************************************************************************)
\* token_cache = {}
EmptyCache == [k \in {} |-> ""]

\* "access_token" in token_cache
IsAuthenticated(cache) == "access_token" \in DOMAIN cache

\* what acquire_token_by_authorization_code may give: a result with an
\* access token, with or without a refresh token, a result without one, or
\* an exception
TokenResults ==
    {[kind |-> "token", access_token |-> "t1", refresh_token |-> "r1"],
     [kind |-> "token", access_token |-> "t2", refresh_token |-> "None"],
     [kind |-> "error", access_token |-> "", refresh_token |-> ""],
     [kind |-> "raise", access_token |-> "", refresh_token |-> ""]}

\* token_cache after auth_callback got result
CacheAfterCallback(cache, result_) ==
    IF result_.kind = "token"
    THEN [k \in DOMAIN cache \cup {"access_token", "refresh_token"} |->
            IF k = "access_token" THEN result_.access_token
            ELSE IF k = "refresh_token" THEN result_.refresh_token
            ELSE cache[k]]
    ELSE cache

\* the status of the response of auth_callback: the redirect, the 400 of a
\* result without a token, the 500 of an exception
CallbackStatus(result_) ==
    IF result_.kind = "token" THEN 307
    ELSE IF result_.kind = "error" THEN 400
    ELSE 500

\* CacheAfterLogout that only drops the refresh token
CacheAfterLogout_KeepAccess(cache) ==
    [k \in DOMAIN cache \ {"refresh_token"} |-> cache[k]]

\* token_cache.clear()
CacheAfterLogout(cache) == EmptyCache

(***************************************************************************)
(* send_invites                                                            *)
(***************************************************************************)
\* what the remote calendar service may do with one request: create the
\* entry (200 or 201) or refuse it, each with a body that response.json()
\* reads or raises on, or requests.post raises
RemoteOutcomes ==
    {"created", "created_unreadable", "refused", "refused_unreadable",
     "post_raises"}

\* a value of start_datetime that "not start_datetime" holds for
NoDatetime == <<>>

\* event["title"], when the key is there
TitleResult(event, success, error) ==
    [event |-> event.title, success |-> success, error |-> error]

\* ExceptResult of a handler that swallows the exception
ExceptResult_Skip(event) == <<>>

\* the except branch: one failure, named by event.get("title", "Unknown")
ExceptResult(event) ==
    <<[event |-> IF event.has_title THEN event.title ELSE "Unknown",
       success |-> FALSE, error |-> "exception"]>>

\* the try block after parse_event_datetime returned start_datetime: what
\* it appends to results, through the except branch when a step raises
AfterParse(event, start_datetime, outcome) ==
    IF ~event.has_title THEN ExceptResult(event)
    ELSE IF start_datetime = NoDatetime
    THEN <<TitleResult(event, FALSE, "Could not parse date/time")>>
    ELSE IF outcome = "post_raises" THEN ExceptResult(event)
    ELSE IF outcome \in {"created_unreadable", "refused_unreadable"}
    THEN ExceptResult(event)
    ELSE IF outcome = "created" THEN <<TitleResult(event, TRUE, "")>>
    ELSE <<TitleResult(event, FALSE, "message")>>

\* one pass of the loop body: what it appends to results, or that the
\* exception of the except branch itself leaves the handler (an event that
\* is no JSON object has no get)
EventResults(event, outcome) ==
    LET Parsed(w) ==
            IF w.kind = "raise"
            THEN [abort |-> FALSE, appended |-> ExceptResult(event)]
            ELSE [abort |-> FALSE,
                  appended |-> AfterParse(event, w.start, outcome)]
    IN  IF ~event.is_object THEN [abort |-> TRUE, appended |-> <<>>]
        ELSE Parsed(parse_event_datetime(event))

\* the loop over the events from the k-th on, the k-th remote outcome being
\* remote[k]: the results it appends, or that it was left by an exception
RECURSIVE SendLoop(_, _, _)
SendLoop(evs, remote, k) ==
    IF k > Len(evs) THEN [aborted |-> FALSE, results |-> <<>>]
    ELSE LET Rest(r, tail) ==
                 [aborted |-> tail.aborted, results |-> r.appended \o tail.results]
             Step(r) ==
                 IF r.abort THEN [aborted |-> TRUE, results |-> <<>>]
                 ELSE Rest(r, SendLoop(evs, remote, k + 1))
         IN  Step(EventResults(evs[k], remote[k]))

\* sum(1 for r in results if r["success"])
Successful(results) == Cardinality({k \in DOMAIN results : results[k].success})

\* the response of send_invites once the request body was read: 400 for no
\* events, 500 when token_cache lost its access token or the loop was left
\* by an exception, else the results
send_invites(cache, evs, remote) ==
    LET base == [handler |-> "send_invites", status |-> 0, error |-> "",
                 request |-> evs, remote |-> remote, successful |-> 0,
                 total |-> 0, results |-> <<>>]
        Looped(l) ==
            IF l.aborted
            THEN [base EXCEPT !.status = 500, !.error = "AttributeError"]
            ELSE [base EXCEPT !.status = 200,
                              !.successful = Successful(l.results),
                              !.total = Len(evs),
                              !.results = l.results]
    IN  IF evs = <<>> THEN [base EXCEPT !.status = 400]
        ELSE IF ~IsAuthenticated(cache)
        THEN [base EXCEPT !.status = 500, !.error = "KeyError"]
        ELSE Looped(SendLoop(evs, remote, 1))

(***************************************************************************)
(* The lines the parser is applied to                                      *)
(***************************************************************************)
Sp == <<" ">>

\* a line as PDF extraction may give it: a space after every character
RECURSIVE Spaced(_)
Spaced(s) == IF Len(s) = 0 THEN Empty ELSE <<s[1], " ">> \o Spaced(Tail(s))

TeamTexts ==
    {TEAM_TO_CHILD[k][1] : k \in DOMAIN TEAM_TO_CHILD}
        \cup {Empty, <<"S", "E", "N", "1">>, <<"j", "u", "n", "2">>}

OffTexts ==
    {Empty, OFF, <<"o", "f", "f">>, <<"O", "f", "f">>, <<"O", " ", "F", " ", "F">>}

MinuteTexts == {Empty, <<":", "3", "0">>}

StartMarkerTexts == {Empty, <<"P", "M">>, <<"A">>}

EndHourTexts == {<<"7">>, <<"1", "2">>}

EndMarkerTexts == {Empty, <<"P">>, <<"P", "M">>, <<"A", "M">>}

\* every time range H[:MM][marker]-H[:MM][marker] over the sets above
TimeTexts ==
    {IntToStr(h) \o sm \o sk \o <<"-">> \o eh \o em \o ek :
        h \in 0..MaxHour, sm \in MinuteTexts, sk \in StartMarkerTexts,
        eh \in EndHourTexts, em \in MinuteTexts, ek \in EndMarkerTexts}

FewTimeTexts ==
    {Empty,
     <<"6", "-", "7", ":", "3", "0", "P", "M">>,
     <<"1", "1", "-", "1", "2", ":", "3", "0", "P">>,
     <<"1", "3", "-", "2", "P", "M">>}

LocationTexts ==
    {Empty, MICC, MIBC, MW, PL, MW \o Sp \o MICC, PL \o Sp \o MIBC,
     <<"X", "X">>}

MakeLine(team, off, time, loc) ==
    team \o Sp \o off \o (IF off = Empty THEN Empty ELSE Sp) \o time \o Sp \o loc

\* every team spelling, with and without an off marker
TeamLines ==
    {MakeLine(t, o, tm, l) :
        t \in TeamTexts, o \in OffTexts, tm \in FewTimeTexts, l \in LocationTexts}

\* every time range, after a tracked team
TimeLines ==
    {MakeLine(t, Empty, tm, l) :
        t \in {JUN2, <<"J", "U", "N", "1", " ", "R">>}, tm \in TimeTexts,
        l \in {Empty, MICC, MW}}

SpacedLines ==
    {Spaced(MakeLine(t, o, tm, l)) :
        t \in TeamTexts, o \in {Empty, OFF}, tm \in FewTimeTexts,
        l \in {Empty, MICC, MW}}

Lines == {StrStrip(l) : l \in TeamLines \cup TimeLines \cup SpacedLines}

(***************************************************************************)
(* State                                                                   *)
(***************************************************************************)
\* parse_schedule_line has not been called
NotCalled ==
    [ret |-> 0, compact |-> Empty, child |-> Empty, team |-> Empty,
     rest |-> Empty, time_str |-> Empty, location_code |-> Empty]

Pending == [None EXCEPT !.kind = "pending"]

NoUpload == [filename_is_pdf |-> FALSE, opens |-> FALSE, pages |-> <<>>]

NoResponse == [status |-> 0, success |-> FALSE, events |-> <<>>]

\* parse_event_datetime has not been called
NoWindow == [kind |-> "none", date |-> 0, start |-> <<0, 0>>, end |-> <<0, 0>>]

\* no send_invites call is between its check and its body
NoCall == [handler |-> "none", events |-> <<>>]

\* the last step sent no response
NoReply ==
    [handler |-> "none", status |-> 0, error |-> "", request |-> <<>>,
     remote |-> <<>>, successful |-> 0, total |-> 0, results |-> <<>>]

\* the process just started: token_cache = {} and no request was served
ApiIdle ==
    /\ token_cache = EmptyCache
    /\ history = <<>>
    /\ call = NoCall
    /\ reply = NoReply

(***************************************************************************)
(* Spec: parse_schedule_line applied to one line                           *)
(***************************************************************************)
Init ==
    /\ pc = "start"
    /\ line \in Lines
    /\ locals = NotCalled
    /\ result = Pending
    /\ tables = <<>>
    /\ events = <<>>
    /\ origins = <<>>
    /\ upload = NoUpload
    /\ response = NoResponse
    /\ window = NoWindow
    /\ ApiIdle

ParseScheduleLine ==
    /\ pc = "start"
    /\ pc' = "done"
    /\ locals' = Frame(line)
    /\ result' = parse_schedule_line(line)
    /\ UNCHANGED <<line, tables, events, origins, upload, response>>
    /\ UNCHANGED <<window, token_cache, history, call, reply>>

Next == ParseScheduleLine

Spec == Init /\ [][Next]_vars

(***************************************************************************)
(* Claims about parse_schedule_line                                        *)
(***************************************************************************)
\* the call has returned
Returned == pc = "done"

\* the call got as far as the time and location steps
ReachedSteps == locals.ret \in {304, 309}

\* sub occurs somewhere in s
Occurs(sub, s) ==
    \E i \in 1..Len(s) : i + Len(sub) - 1 <= Len(s) /\ SubSeq(s, i, i + Len(sub) - 1) = sub

HasTeamToken(l) ==
    \E t \in {JUN1R, JUN1B, JUN2} : Occurs(t, RemoveWhitespace(StrUpper(l)))

HasTimeRange(s) ==
    \E i \in 1..Len(s) :
        /\ TimeMatchAt(s, i).ok
        /\ ToInt(TimeMatchAt(s, i).g1) \in 1..12

HasLocationCode(s) == \E c \in {MICC, MIBC, MW, PL} : Occurs(c, s)

\* C1: parse_schedule_line returns an event only if the line has a tracked
\* team token and the text after it has a time range with start hour 1..12
\* and a location code; when one of the three is missing it returns None,
\* never an event with an empty time or location.
C1_EventOnlyIfAllThree ==
    Returned =>
        /\ result.kind \in {"event", "None"}
        /\ result.kind = "event" =>
              /\ HasTeamToken(line)
              /\ HasTimeRange(locals.rest)
              /\ HasLocationCode(locals.rest)
              /\ result.time # Empty
              /\ result.location_code \in {MICC, MIBC, MW, PL}
        /\ ~(HasTeamToken(line) /\ HasTimeRange(locals.rest)
                /\ HasLocationCode(locals.rest)) => result = None

\* C1 witness: a line with a team and a time but no location was dropped,
\* and so was not given a defaulted location
C1_Witness ==
    /\ locals.ret = 304
    /\ locals.child # Empty
    /\ locals.time_str # Empty
    /\ locals.location_code = Empty
    /\ result = None

\* C2: for every spelling of the registry, the team step applied to a line
\* that starts with that spelling resolves to the child the registry gives.
C2_EverySpellingResolves ==
    \A k \in DOMAIN TEAM_TO_CHILD :
        (locals.ret \in {265, 304, 309} /\ MatchAt(line, TEAM_TO_CHILD[k][1], 1))
            => locals.child = TEAM_TO_CHILD[k][2]

\* [AP]M? at position p: the length of the marker there (0: none)
MarkerLen(s, p) ==
    IF CharAt(s, p) \in {"A", "P"}
    THEN (IF CharAt(s, p + 1) = "M" THEN 2 ELSE 1)
    ELSE 0

\* s begins with a time range H[:MM][marker]-H[:MM][marker]
RangeForm(s) ==
    LET n1 == DigitRun(s, 1)
        a == 1 + n1
        b == IF MinutesAt(s, a) THEN a + 3 ELSE a
        k1 == MarkerLen(s, b)
        c == b + k1
        n3 == DigitRun(s, c + 1)
        d == c + 1 + n3
        e == IF MinutesAt(s, d) THEN d + 3 ELSE d
        k2 == MarkerLen(s, e)
    IN  [ok |-> n1 > 0 /\ CharAt(s, c) = "-" /\ n3 > 0,
         start_hour |-> SubSeq(s, 1, n1),
         start_marker |-> SubSeq(s, b, b + k1 - 1),
         end_marker |-> SubSeq(s, e, e + k2 - 1)]

\* t reads H:MM XM - H:MM XM, both markers being the marker m
DisplayForm(t, m) ==
    LET n1 == DigitRun(t, 1)
        a == 1 + n1
        n3 == DigitRun(t, a + 9)
        b == a + 9 + n3
    IN  /\ n1 > 0
        /\ MinutesAt(t, a)
        /\ SubSeq(t, a + 3, a + 8) = <<" ">> \o m \o <<" ", "-", " ">>
        /\ n3 > 0
        /\ MinutesAt(t, b)
        /\ SubSeq(t, b + 3, Len(t)) = <<" ">> \o m
        /\ m \in {<<"A", "M">>, <<"P", "M">>}

\* C4 as stated: every range H[:MM][AM/PM]-H[:MM][AM/PM] with start hour 1..12
\* and a marker on one end or on both is matched, and is displayed as
\* H:MM XM - H:MM XM.
C4_MarkerOnEitherEnd ==
    LET f == RangeForm(locals.rest)
    IN  (/\ ReachedSteps
         /\ f.ok
         /\ ToInt(f.start_hour) \in 1..12
         /\ (f.start_marker # Empty \/ f.end_marker # Empty))
            => \E m \in {<<"A", "M">>, <<"P", "M">>} : DisplayForm(locals.time_str, m)

\* C4 amended: every range H[:MM]-H[:MM] with start hour 1..12 and one marker
\* (A, P, AM or PM) after the end time, and none after the start time, is
\* matched and displayed as H:MM XM - H:MM XM with that marker on both ends.
C4_MarkerAfterEnd ==
    LET f == RangeForm(locals.rest)
    IN  (/\ ReachedSteps
         /\ f.ok
         /\ ToInt(f.start_hour) \in 1..12
         /\ f.start_marker = Empty
         /\ f.end_marker # Empty)
            => DisplayForm(locals.time_str, <<f.end_marker[1], "M">>)

\* C4 witness: a range with the one-letter marker P was displayed with PM
C4_Witness ==
    /\ ReachedSteps
    /\ RangeForm(locals.rest).ok
    /\ RangeForm(locals.rest).start_marker = Empty
    /\ RangeForm(locals.rest).end_marker = <<"P">>
    /\ DisplayForm(locals.time_str, <<"P", "M">>)

\* C5: a line with an off marker, in any letter case and also with spaces
\* between its letters, gives no event whatever else it holds.
C5_OffNeverAnEvent ==
    (Returned /\ Occurs(OFF, RemoveWhitespace(StrUpper(line)))) => result = None

\* C6: the location step gives the first of MICC, MIBC, MW, PL that occurs in
\* the text after the team token, the event carries that code's record, and a
\* text whose only code is a 4-letter one is never reported as MW or PL.
C6_FirstCodeInOrder ==
    LET r == locals.rest
        c == locals.location_code
    IN  ReachedSteps =>
            /\ c = MICC <=> Occurs(MICC, r)
            /\ c = MIBC <=> (Occurs(MIBC, r) /\ ~Occurs(MICC, r))
            /\ c = MW <=> (Occurs(MW, r) /\ ~Occurs(MICC, r) /\ ~Occurs(MIBC, r))
            /\ c = PL <=> (/\ Occurs(PL, r)
                           /\ ~Occurs(MICC, r) /\ ~Occurs(MIBC, r) /\ ~Occurs(MW, r))
            /\ c = Empty <=> ~HasLocationCode(r)
            /\ (~Occurs(MW, r) /\ ~Occurs(PL, r)) => c \notin {MW, PL}
            /\ result.kind = "event" =>
                  /\ result.location_code = c
                  /\ result.location_name = LOCATIONS(c).name
                  /\ result.location_address = LOCATIONS(c).address

\* C6 witness: a text holding both MW and MICC was reported as MICC
C6_Witness ==
    /\ locals.ret = 309
    /\ Occurs(MW, locals.rest)
    /\ Occurs(MICC, locals.rest)
    /\ result.location_code = MICC

(***************************************************************************)
(* The tables the grid walk is applied to                                  *)
(***************************************************************************)
\* a table has at most MaxBodyRows rows after its header row
MaxBodyRows == 4

\* a list of several tables has at most MaxTables tables
MaxTables == 3

TitleRow ==
    <<<<"F", "e", "b", "r", "u", "a", "r", "y", " ", "2", "0", "2", "6", " ", "P", "r", "a", "c", "t", "i", "c", "e", " ", "S", "c", "h", "e", "d", "u", "l", "e">>>>

HeaderRow ==
    <<<<"M", "o", "n", "d", "a", "y">>,
      <<"T", "u", "e", "s", "d", "a", "y">>,
      <<"W", "e", "d", "n", "e", "s", "d", "a", "y">>>>

OtherRow ==
    <<<<"G", "r", "o", "u", "p">>,
      <<"C", "o", "a", "c", "h">>,
      <<"L", "a", "n", "e">>>>

DateRowA ==
    <<<<"1">>,
      <<"2">>,
      <<"3">>>>

DateRowB ==
    <<<<"2", "7">>,
      <<"2", "8">>,
      <<"2", "9">>>>

TwoNumbersRow ==
    <<<<"8">>,
      <<"9">>,
      <<>>>>

DataRowA ==
    <<<<"J", "U", "N", "2", " ", "6", "-", "7", ":", "3", "0", "P", "M", " ", "M", "I", "C", "C">>,
      <<"J", "U", "N", "1", " ", "R", " ", "1", "1", "-", "1", "2", ":", "3", "0", "P", " ", "M", "W">>,
      <<"S", "E", "N", "1", " ", "5", "-", "6", "P", "M", " ", "M", "I", "C", "C">>>>

DataRowB ==
    <<<<"J", "U", "N", "1", "B", " ", "5", "-", "6", "P", "M", " ", "P", "L", "\n", "J", "U", "N", "2", " ", "O", "F", "F">>,
      <<>>,
      <<"j", "u", "n", " ", "2", " ", "7", ":", "1", "5", "-", "8", "A", "M", " ", "M", "I", "B", "C">>>>

BodyRows == {DateRowA, DateRowB, DataRowA, DataRowB}

\* the sequences of at most n body rows
RECURSIVE BodiesUpTo(_)
BodiesUpTo(n) ==
    IF n = 0 THEN {<<>>}
    ELSE LET B == BodiesUpTo(n - 1)
         IN  B \cup {Append(b, r) : b \in {x \in B : Len(x) = n - 1}, r \in BodyRows}

\* a table: a title row or none, a header row or a row without day names,
\* then body rows
OneTables ==
    {t \o <<HeaderRow>> \o b : t \in {<<>>, <<TitleRow>>}, b \in BodiesUpTo(MaxBodyRows)}
        \cup {<<OtherRow>> \o b : b \in BodiesUpTo(2)}

\* the table of the end-to-end example: two day columns
ExampleTable ==
    <<<<<<"M", "o", "n", "d", "a", "y">>,
        <<"T", "u", "e", "s", "d", "a", "y">>>>,
      <<<<"1">>,
        <<"2">>>>,
      <<<<"J", "U", "N", "2", " ", "6", "-", "7", ":", "3", "0", "P", "M", " ", "M", "I", "C", "C">>,
        <<"J", "U", "N", "1", " ", "R", " ", "1", "1", "-", "1", "2", ":", "3", "0", "P", " ", "M", "W">>>>>>

\* the tables that lists of several tables are made of
FewTables ==
    {ExampleTable,
     <<HeaderRow, DataRowA>>,
     <<OtherRow, DateRowA, DataRowA>>,
     <<HeaderRow, TwoNumbersRow, DataRowB>>,
     <<TitleRow, HeaderRow, DateRowB, DataRowB>>}

RECURSIVE ListsUpTo(_)
ListsUpTo(n) ==
    IF n = 0 THEN {<<>>}
    ELSE LET L == ListsUpTo(n - 1)
         IN  L \cup {Append(l, t) : l \in {x \in L : Len(x) = n - 1}, t \in FewTables}

TableLists == {<<t>> : t \in OneTables} \cup ListsUpTo(MaxTables)

(***************************************************************************)
(* SpecTables: parse_swim_schedule_tables applied to a list of tables      *)
(***************************************************************************)
InitTables ==
    /\ pc = "start"
    /\ line = Empty
    /\ locals = NotCalled
    /\ result = Pending
    /\ tables \in TableLists
    /\ events = <<>>
    /\ origins = <<>>
    /\ upload = NoUpload
    /\ response = NoResponse
    /\ window = NoWindow
    /\ ApiIdle

ParseSwimScheduleTables ==
    /\ pc = "start"
    /\ pc' = "done"
    /\ events' = parse_swim_schedule_tables(tables)
    /\ origins' = EventOrigins(tables)
    /\ UNCHANGED <<line, locals, result, tables, upload, response>>
    /\ UNCHANGED <<window, token_cache, history, call, reply>>

NextTables == ParseSwimScheduleTables

SpecTables == InitTables /\ [][NextTables]_vars

(***************************************************************************)
(* Claims about parse_swim_schedule_tables                                 *)
(***************************************************************************)
\* the example table has been parsed
ExampleDone == pc = "done" /\ tables = <<ExampleTable>>

\* C3 as stated: the example table gives exactly 2 events, Nastya at MICC on
\* the resolved date of day 1 and Liza at MW on the resolved date of day 2.
C3_ExampleResolvedDates ==
    ExampleDone =>
        /\ Len(events) = 2
        /\ events[1].child = Nastya
        /\ events[1].location_code = MICC
        /\ events[1].date =
              FormatDate(CalendarMonth(ExampleTable), 1, CalendarYear(ExampleTable))
        /\ events[2].child = Liza
        /\ events[2].location_code = MW
        /\ events[2].date =
              FormatDate(CalendarMonth(ExampleTable), 2, CalendarYear(ExampleTable))

\* C3 amended: the example table gives exactly 2 events, Nastya at MICC and
\* Liza at MW in that order, each with an empty date: a row of two day numbers
\* is not a date row, which takes three.
C3_ExampleEmptyDates ==
    ExampleDone =>
        /\ Len(events) = 2
        /\ events[1].child = Nastya
        /\ events[1].location_code = MICC
        /\ events[1].date = Empty
        /\ events[2].child = Liza
        /\ events[2].location_code = MW
        /\ events[2].date = Empty

\* C3 witness: the example table was parsed into two events
C3_Witness == ExampleDone /\ Len(events) = 2 /\ origins[2].col = 2

\* a cell of the table holds a day name
HasDayName(t) ==
    \E r \in DOMAIN t : \E c \in DOMAIN t[r] :
        \/ Occurs(monday, StrLower(t[r][c]))
        \/ Occurs(tuesday, StrLower(t[r][c]))

Unrecognised(t) == Len(t) < 3 \/ ~HasDayName(t)

RemoveAt(s, i) == SubSeq(s, 1, i - 1) \o SubSeq(s, i + 1, Len(s))

\* C7: a table with fewer than 3 rows or without a day-name row adds no
\* event, and the events of the list are those of the list without it.
C7_UnrecognisedTableIgnored ==
    pc = "done" =>
        \A i \in DOMAIN tables :
            Unrecognised(tables[i]) =>
                /\ \A k \in DOMAIN origins : origins[k].table # i
                /\ events = parse_swim_schedule_tables(RemoveAt(tables, i))

\* C7 witness: a list with an unrecognised table and a recognised one that
\* gave events
C7_Witness ==
    /\ pc = "done"
    /\ Len(tables) >= 2
    /\ \E i \in DOMAIN tables : Unrecognised(tables[i]) /\ Len(tables[i]) >= 3
    /\ \E i \in DOMAIN tables : Unrecognised(tables[i]) /\ Len(tables[i]) < 3
    /\ events # <<>>

\* row d of table t is a date row with an in-month day number in column c,
\* it lies below the header and above row r, and no row from d+1 to r is a
\* date row
DateRowAbove(t, d, r, c) ==
    /\ d > HeaderRowIdx(t) + 1
    /\ d < r
    /\ IsDateRow(t[d])
    /\ c \in DateColumns(t[d])
    /\ ToInt(StrStrip(t[d][c])) <= DaysInMonth(CalendarYear(t), CalendarMonth(t))
    /\ \A x \in (d + 1)..r : ~IsDateRow(t[x])

\* the date resolved from row d, column c of table t
ResolvedDate(t, d, c) ==
    FormatDate(CalendarMonth(t), ToInt(StrStrip(t[d][c])), CalendarYear(t))

\* C10 as stated: an event from column c of a row below a date row d and
\* above the next date row has the date of row d's column c, however many
\* rows below d it is.
C10_DateReusedForEveryRow ==
    pc = "done" =>
        \A k \in DOMAIN events :
            \A d \in 1..origins[k].row :
                DateRowAbove(tables[origins[k].table], d, origins[k].row, origins[k].col)
                    => events[k].date =
                          ResolvedDate(tables[origins[k].table], d, origins[k].col)

\* C10 amended: such an event has the date of row d's column c when its row is
\* one or two rows below d; three or more rows below d its date is empty.
C10_DateReusedForTwoRows ==
    pc = "done" =>
        \A k \in DOMAIN events :
            \A d \in 1..origins[k].row :
                DateRowAbove(tables[origins[k].table], d, origins[k].row, origins[k].col)
                    => events[k].date =
                          IF origins[k].row - d <= 2
                          THEN ResolvedDate(tables[origins[k].table], d, origins[k].col)
                          ELSE Empty

\* C10 witness: an event two rows below its date row took that row's date
C10_Witness ==
    /\ pc = "done"
    /\ \E k \in DOMAIN events :
          /\ origins[k].row >= 3
          /\ DateRowAbove(tables[origins[k].table], origins[k].row - 2,
                          origins[k].row, origins[k].col)
          /\ events[k].date =
                ResolvedDate(tables[origins[k].table], origins[k].row - 2,
                             origins[k].col)

(***************************************************************************)
(* SpecPdf: parse_pdf applied to an uploaded document                      *)
(***************************************************************************)
\* a document has at most MaxPages pages
MaxPages == 2

SortExampleTable ==
    <<TitleRow,
      HeaderRow,
      <<<<"1", "0">>,
        <<"9">>,
        <<"1", "0">>>>,
      <<<<"J", "U", "N", "2", " ", "6", "-", "7", "P", "M", " ", "M", "I", "C", "C">>,
        <<"J", "U", "N", "2", " ", "7", "-", "8", "P", "M", " ", "M", "I", "C", "C">>,
        <<"J", "U", "N", "2", " ", "5", "-", "6", "P", "M", " ", "M", "I", "C", "C">>>>>>

TieRow ==
    <<<<"J", "U", "N", "1", "B", " ", "6", "-", "7", "P", "M", " ", "P", "L">>,
      <<"J", "U", "N", "1", " ", "R", " ", "9", "-", "1", "0", "A", "M", " ", "M", "W">>,
      <<"J", "U", "N", "2", " ", "1", "2", "-", "1", "P", "M", " ", "M", "I", "C", "C", "\n", "J", "U", "N", "1", "B", " ", "1", "2", "-", "1", "A", "M", " ", "M", "W">>>>

MixedTable == <<HeaderRow, DateRowA, DataRowA, TieRow>>

\* what extract_tables gives for a page
PageTables ==
    {<<>>, <<SortExampleTable>>, <<MixedTable>>, <<ExampleTable>>,
     <<(<<OtherRow, DateRowA, DataRowA>>)>>, <<ExampleTable, SortExampleTable>>}

RECURSIVE PagesUpTo(_)
PagesUpTo(n) ==
    IF n = 0 THEN {<<>>}
    ELSE LET L == PagesUpTo(n - 1)
         IN  L \cup {Append(l, t) : l \in {x \in L : Len(x) = n - 1}, t \in PageTables}

Uploads ==
    {[filename_is_pdf |-> TRUE, opens |-> TRUE, pages |-> p] : p \in PagesUpTo(MaxPages)}
        \cup {[filename_is_pdf |-> f, opens |-> o, pages |-> p] :
                f \in BOOLEAN, o \in BOOLEAN, p \in PagesUpTo(1)}

InitPdf ==
    /\ pc = "start"
    /\ line = Empty
    /\ locals = NotCalled
    /\ result = Pending
    /\ tables = <<>>
    /\ events = <<>>
    /\ origins = <<>>
    /\ upload \in Uploads
    /\ response = NoResponse
    /\ window = NoWindow
    /\ ApiIdle

\* parse_pdf; tables and events keep all_tables and the events before the
\* sort of a document that was read
ParsePdf ==
    /\ pc = "start"
    /\ pc' = "done"
    /\ response' = parse_pdf(upload)
    /\ tables' = IF upload.filename_is_pdf /\ upload.opens
                 THEN AllTables(upload.pages) ELSE <<>>
    /\ events' = IF upload.filename_is_pdf /\ upload.opens
                 THEN ParsedEvents(upload.pages) ELSE <<>>
    /\ UNCHANGED <<line, locals, result, origins, upload>>
    /\ UNCHANGED <<window, token_cache, history, call, reply>>

NextPdf == ParsePdf

SpecPdf == InitPdf /\ [][NextPdf]_vars

(***************************************************************************)
(* Claims about parse_pdf and extract_schedule_from_pdf                    *)
(***************************************************************************)
\* C8: when the document gives no tables at all, parse_pdf does not return a
\* success response.
C8_NoTablesIsFailure ==
    (/\ pc = "done"
     /\ upload.filename_is_pdf
     /\ upload.opens
     /\ \A k \in DOMAIN upload.pages : upload.pages[k] = <<>>)
        => (response.status # 200 /\ ~response.success)

\* the place of the i-th of the keys ks in the stable order
StableRank(ks, i) ==
    Cardinality({j \in DOMAIN ks : KeyLess(ks[j], ks[i])})
        + Cardinality({j \in 1..(i - 1) : ks[j] = ks[i]}) + 1

\* the keys of the events es
RECURSIVE KeysOf(_)
KeysOf(es) == IF Len(es) = 0 THEN <<>> ELSE <<sort_key(es[1])>> \o KeysOf(Tail(es))

\* out is es in the stable order of the keys ks
InStableOrder(out, es, ks) ==
    /\ Len(out) = Len(es)
    /\ \A i \in DOMAIN es : out[StableRank(ks, i)] = es[i]

\* the marker of the start time of an event
StartMarker(e) ==
    LET P == {i \in DOMAIN e.time : e.time[i] \in {"A", "P"}}
    IN  e.time[SetMin(P)]

Feb9 == <<"F", "e", "b", " ", "9", ",", " ", "2", "0", "2", "6">>
Feb10 == <<"F", "e", "b", " ", "1", "0", ",", " ", "2", "0", "2", "6">>
SevenPM == <<"7", ":", "0", "0", " ", "P", "M">>
FivePM == <<"5", ":", "0", "0", " ", "P", "M">>
SixPM == <<"6", ":", "0", "0", " ", "P", "M">>

\* C9: the returned list is the parsed events in the stable order by (date,
\* start hour in 24-hour form, start minute): events with an empty date come
\* after all dated events, on one date the AM starts come before the PM
\* starts, equal keys keep their input order, and the example (Feb 10 6 PM,
\* Feb 9 7 PM, Feb 10 5 PM) comes out as (Feb 9 7 PM, Feb 10 5 PM, Feb 10 6 PM).
C9_StableSortByDateAndStart ==
    (pc = "done" /\ response.status = 200) =>
        LET out == response.events
        IN  /\ InStableOrder(out, events, KeysOf(events))
            /\ \A i, j \in DOMAIN out :
                  (out[i].date = Empty /\ out[j].date # Empty) => j < i
            /\ \A i, j \in DOMAIN out :
                  (/\ i < j
                   /\ out[i].date = out[j].date
                   /\ out[i].date # Empty) =>
                        ~(StartMarker(out[i]) = "P" /\ StartMarker(out[j]) = "A")
            /\ tables = <<SortExampleTable>> =>
                  /\ [k \in DOMAIN events |-> <<events[k].date, SubSeq(events[k].time, 1, 7)>>]
                        = <<(<<Feb10, SixPM>>), <<Feb9, SevenPM>>, <<Feb10, FivePM>> >>
                  /\ [k \in DOMAIN out |-> <<out[k].date, SubSeq(out[k].time, 1, 7)>>]
                        = <<(<<Feb9, SevenPM>>), <<Feb10, FivePM>>, <<Feb10, SixPM>> >>

\* C9 witness: the sort moved events, kept two events of equal key in their
\* input order and put an event with an empty date last
C9_Witness ==
    /\ pc = "done"
    /\ response.status = 200
    /\ response.events # events
    /\ \E i, j \in DOMAIN events :
          /\ i < j
          /\ events[i] # events[j]
          /\ sort_key(events[i]) = sort_key(events[j])
          /\ sort_key(events[i])[1] # datetime_max
    /\ events[1].date = Empty
    /\ response.events[1].date # Empty

(***************************************************************************)
(* SpecApi: auth_callback, logout, test_calendar and send_invites on the   *)
(* process-wide token_cache.  Every handler is an async function without   *)
(* an await in it, except for send_invites, which awaits the request body  *)
(* between its check of token_cache and the rest of its work.              *)
(***************************************************************************)
\* the handlers served in one behaviour
MaxCalls == 3

Feb9Text == <<"F", "e", "b", " ", "9", ",", " ", "2", "0", "2", "6">>

EveningText ==
    <<"6", ":", "0", "0", " ", "P", "M", " ", "-", " ",
      "7", ":", "3", "0", " ", "P", "M">>

\* an end hour that is no hour of the day once 12 is added
LateText ==
    <<"6", ":", "0", "0", " ", "P", "M", " ", "-", " ",
      "1", "3", ":", "0", "0", " ", "P", "M">>

GoodEvent ==
    [is_object |-> TRUE, has_title |-> TRUE, title |-> "good",
     date |-> Feb9Text, time |-> EveningText]

UntitledEvent == [GoodEvent EXCEPT !.has_title = FALSE, !.title = ""]

LateEvent == [GoodEvent EXCEPT !.title = "late", !.time = LateText]

UntimedEvent == [GoodEvent EXCEPT !.title = "untimed", !.date = Empty, !.time = Empty]

NumberTimeEvent == [GoodEvent EXCEPT !.title = "number", !.time = NotAString]

\* an element of the list that is no JSON object
NotAnEvent ==
    [is_object |-> FALSE, has_title |-> FALSE, title |-> "", date |-> Empty,
     time |-> Empty]

EventObjects == {GoodEvent, UntitledEvent, LateEvent, UntimedEvent, NumberTimeEvent}

\* the values of "events" in the request bodies
Requests ==
    {<<>>}
        \cup {<<e>> : e \in EventObjects \cup {NotAnEvent}}
        \cup {<<GoodEvent, LateEvent>>, <<UntitledEvent, GoodEvent>>,
              <<NumberTimeEvent, UntimedEvent>>, <<NotAnEvent, GoodEvent>>,
              <<GoodEvent, NotAnEvent>>}

\* what the remote service does with the request of each event
RemoteScripts(evs) == [DOMAIN evs -> RemoteOutcomes]

InitApi ==
    /\ pc = "start"
    /\ line = Empty
    /\ locals = NotCalled
    /\ result = Pending
    /\ tables = <<>>
    /\ events = <<>>
    /\ origins = <<>>
    /\ upload = NoUpload
    /\ response = NoResponse
    /\ window = NoWindow
    /\ ApiIdle

Served(handler, outcome) == history' = Append(history, [handler |-> handler, outcome |-> outcome])

Replied(handler, status) == reply' = [NoReply EXCEPT !.handler = handler, !.status = status]

AuthCallback ==
    /\ Len(history) < MaxCalls
    /\ \E result_ \in TokenResults :
          /\ token_cache' = CacheAfterCallback(token_cache, result_)
          /\ Replied("auth_callback", CallbackStatus(result_))
          /\ Served("auth_callback",
                    IF result_.kind = "token" THEN "ok" ELSE "failed")
    /\ UNCHANGED <<pc, line, locals, result, tables, events, origins, upload,
                   response, window, call>>

Logout ==
    /\ Len(history) < MaxCalls
    /\ token_cache' = CacheAfterLogout(token_cache)
    /\ Replied("logout", 307)
    /\ Served("logout", "ok")
    /\ UNCHANGED <<pc, line, locals, result, tables, events, origins, upload,
                   response, window, call>>

\* test_calendar: 401 without an access token, else the two requests to the
\* remote service, which answer or raise
TestCalendar ==
    /\ Len(history) < MaxCalls
    /\ \E remote \in {"answers", "raises"} :
          IF ~IsAuthenticated(token_cache)
          THEN Replied("test_calendar", 401) /\ Served("test_calendar", "rejected")
          ELSE /\ Replied("test_calendar", IF remote = "answers" THEN 200 ELSE 500)
               /\ Served("test_calendar", "passed")
    /\ UNCHANGED <<pc, line, locals, result, tables, events, origins, upload,
                   response, window, token_cache, call>>

\* send_invites up to "await request.json()"; reply is the response the
\* step sends, and this step sends none when the check passes
SendInvitesCheck ==
    /\ Len(history) < MaxCalls
    /\ call = NoCall
    /\ \E evs \in Requests :
          IF ~IsAuthenticated(token_cache)
          THEN /\ Replied("send_invites", 401)
               /\ Served("send_invites", "rejected")
               /\ call' = call
          ELSE /\ call' = [handler |-> "send_invites", events |-> evs]
               /\ Served("send_invites", "passed")
               /\ reply' = NoReply
    /\ UNCHANGED <<pc, line, locals, result, tables, events, origins, upload,
                   response, window, token_cache>>

\* send_invites from the request body on
SendInvitesBody ==
    /\ call.handler = "send_invites"
    /\ \E remote \in RemoteScripts(call.events) :
          reply' = send_invites(token_cache, call.events, remote)
    /\ call' = NoCall
    /\ UNCHANGED <<pc, line, locals, result, tables, events, origins, upload,
                   response, window, token_cache, history>>

NextApi ==
    \/ AuthCallback
    \/ Logout
    \/ TestCalendar
    \/ SendInvitesCheck
    \/ SendInvitesBody

SpecApi == InitApi /\ [][NextApi]_vars

(***************************************************************************)
(* Claims about send_invites                                               *)
(***************************************************************************)
\* send_invites answered a non-empty list of JSON objects, still holding the
\* access token after the request body was read
AnsweredEvents ==
    /\ reply.handler = "send_invites"
    /\ reply.request # <<>>
    /\ \A k \in DOMAIN reply.request : reply.request[k].is_object
    /\ reply.error # "KeyError"

\* the k-th event of the answered request goes through the loop body to the
\* success branch: its date and time parse into a window, it has a title,
\* and the remote service creates the entry with a body that can be read
ExpectSuccess(k) ==
    /\ reply.request[k].has_title
    /\ parse_event_datetime(reply.request[k]).kind = "window"
    /\ reply.remote[k] = "created"

LateLines ==
    {JUN2 \o Sp \o <<"6", "-", "1", "3", "P", "M">> \o Sp \o MICC,
     JUN2 \o Sp \o <<"6", "-", "7", ":", "7", "5", "P", "M">> \o Sp \o MW}

WindowLines == Lines \cup LateLines

\* the dates a cell may have: none, or one a date row resolved
CellDates == {Empty, Feb9Text}

InitWindow ==
    /\ pc = "start"
    /\ line \in WindowLines
    /\ locals = NotCalled
    /\ result = Pending
    /\ tables = <<>>
    /\ events = <<>>
    /\ origins = <<>>
    /\ upload = NoUpload
    /\ response = NoResponse
    /\ window = NoWindow
    /\ ApiIdle

ParseEventDatetime ==
    /\ pc = "done"
    /\ result.kind = "event"
    /\ pc' = "window"
    /\ \E date_str \in CellDates :
          window' = parse_event_datetime(WithDate(result, date_str))
    /\ UNCHANGED <<line, locals, result, tables, events, origins, upload,
                   response, token_cache, history, call, reply>>

NextWindow == ParseScheduleLine \/ ParseEventDatetime

SpecWindow == InitWindow /\ [][NextWindow]_vars

(***************************************************************************)
(* Claims about parse_event_datetime                                       *)
(***************************************************************************)
\* C12: for every event that parse_schedule_line produces, the calendar
\* window parse_event_datetime computes from it (practice start minus 45
\* minutes, practice end plus 30 minutes) has its start strictly before
\* its end.
C12_WindowStartBeforeEnd ==
    (pc = "window" /\ window.kind = "window") => Before(window.start, window.end)

(***************************************************************************)
(* Claims about token_cache                                                *)
(***************************************************************************)
\* some auth_callback of h succeeded and no logout of h came after it
LoggedIn(h) ==
    \E i \in DOMAIN h :
        /\ h[i].handler = "auth_callback"
        /\ h[i].outcome = "ok"
        /\ \A j \in DOMAIN h : j > i => h[j].handler # "logout"

\* the step serves handler
Serves(handler) ==
    /\ Len(history') = Len(history) + 1
    /\ history'[Len(history')].handler = handler

\* the step is the check of token_cache by test_calendar or by send_invites
ChecksToken == Serves("test_calendar") \/ Serves("send_invites")

\* the step is send_invites going through its loop, where the remote service
\* is called
RunsLoop == call.handler = "send_invites" /\ call' = NoCall /\ reply'.status = 200

\* C13: over any sequence of auth_callback, logout, send_invites and
\* test_calendar calls, send_invites and test_calendar get past the 401
\* rejection, and reach the remote calendar service, only if some
\* auth_callback succeeded with no logout after it; without that they are
\* rejected with 401; and a failed auth_callback leaves token_cache
\* unchanged.
C13_TokenGatesCalls ==
    [][/\ ChecksToken =>
            /\ history'[Len(history')].outcome = "passed" <=> LoggedIn(history)
            /\ ~LoggedIn(history) =>
                  /\ history'[Len(history')].outcome = "rejected"
                  /\ reply'.status = 401
       /\ RunsLoop => LoggedIn(history)
       /\ (Serves("auth_callback") /\ history'[Len(history')].outcome = "failed")
            => token_cache' = token_cache]_vars

\* after a successful auth_callback and a logout, a call was rejected with
\* 401
C13_Witness ==
    /\ Len(history) = 3
    /\ history[1] = [handler |-> "auth_callback", outcome |-> "ok"]
    /\ history[2].handler = "logout"
    /\ history[3].handler \in {"test_calendar", "send_invites"}
    /\ history[3].outcome = "rejected"
    /\ reply.status = 401

====
